---- MODULE Spec2Model ----
(***************************************************************************)
(* Whsp backend: the recording registry (services/database.ts), the audio  *)
(* store (storage/local.ts), the processing pipeline and the recording     *)
(* routes (routes/audio.ts), and the export routes and export file store   *)
(* (routes/export.ts, services/database.ts lines 310-538).                 *)
(*                                                                         *)
(* Every await of the code that touches the database or the file system    *)
(* can throw; an action takes the injected fault as an input and follows   *)
(* the code's try/catch from there.                                        *)
(*                                                                         *)
(* Four specifications over the same variables: Spec (upload, pipeline,    *)
(* recording routes), ExportSpec (export routes, clock and cleanup over a  *)
(* recording as a run leaves it), SweepSpec (overlapping cleanup requests, *)
(* await by await) and RoundTripSpec (the direct export of one completed   *)
(* recording over the storable confidences).                               *)
(***************************************************************************)
EXTENDS Integers, Sequences, FiniteSets, TLC

(* ---------------------------- bounds ----------------------------------- *)

\* number of recording ids that uploads can generate
NumRecs == 1
\* number of export ids that POST /api/export can generate
MaxExports == 1
\* number of clock instants the model visits (index into Instants)
MaxTick == 4

(* ---------------------------- constants -------------------------------- *)

\* services/database.ts:315, in minutes
EXPORT_EXPIRY_MS == 15

IdSeq == <<"rec_1", "rec_2", "rec_3">>
RecIds == {IdSeq[i] : i \in 1..NumRecs}

ExportIdSeq == <<"uuid_1", "uuid_2", "uuid_3">>
ExportIds == {ExportIdSeq[i] : i \in 1..MaxExports}

\* the instants (minutes) at which the clock is observed
Instants == <<0, 10, 15, 16, 26, 31, 32>>

\* a mode check that lets every mode through
anyMode == {"lecture", "meeting", "interview", "custom", "podcast", ""}

validModes == {"lecture", "meeting", "interview", "custom"}
\* the modes an upload request carries: two valid ones, none, an invalid one
UploadModes == {"lecture", "interview", "", "podcast"}

Formats == {"md", "docx", "pdf"}
\* the formats an export request carries: the valid ones and an invalid one
RequestFormats == Formats \cup {"txt"}

RawTexts == {"", "um so uh what was your role"}
CleanTexts == {"", "What was your role?"}
SummaryTexts == {"", "Q: role?"}

\* the stages of the external AI service's /process/full pipeline that can fail
Stages == {"transcription", "cleanup", "summarization"}

NoBytes == <<>>
NoResp == [op |-> "none"]

\* the cleanup requests that can be in progress at a time
Sweepers == {"s1", "s2"}

VARIABLES
  tick,        \* index of the current instant
  nextId,      \* index of the next recording id an upload generates
  db,          \* the recordings table: id -> row, for the ids that have a row
  audio,       \* the audio files: id -> bytes, for the ids that have a file
  pc,          \* position of processAudioAsync for each id
  result,      \* the value callAIService returned, while the run holds it
  attempts,    \* number of calls to callAIService made for each id
  svc,         \* what the external service produced in its run for each id
  exreq,       \* the POST /api/export request in flight
  nextExport,  \* index of the next export id
  files,       \* the files under EXPORT_DIR
  exportDirs,  \* the recording directories under EXPORT_DIR
  sweep,       \* position of each cleanupExpiredExports call in progress
  resp,        \* the HTTP response sent by the last step, NoResp if none
  state,       \* the useAudioRecorder hook's state object
  mediaRecorder, \* the MediaRecorder behind mediaRecorderRef: its state
  timerRef,    \* the duration timer behind timerRef
  poll         \* the pollForResults call of the hook: position and attempts

vars == <<tick, nextId, db, audio, pc, result, attempts, svc,
          exreq, nextExport, files, exportDirs, sweep, resp,
          state, mediaRecorder, timerRef, poll>>

pipeVars == <<pc, result, attempts, svc>>
exportVars == <<exreq, nextExport, files, exportDirs, sweep>>
clientVars == <<state, mediaRecorder, timerRef, poll>>

now == Instants[tick]

\* the recording ids generated so far: the ids a client can know
KnownIds == {IdSeq[i] : i \in 1..(nextId - 1)}

(* ------------------------ recordings table ----------------------------- *)

\* A confidence is a number of ten-thousandths: confidence_score is a
\* DECIMAL(5,4) column. The values the external service reports in
\* transcription_confidence: 0.55, 0.9 and 1.2
ServiceConfidences == {5500, 9000, 12000}

\* data.segments of a transcript
SegmentsOf(raw) == IF raw = "" THEN <<>> ELSE <<[start |-> 0, end |-> 2, text |-> raw]>>

\* a result with nothing in it; NULL columns read back as these values
\* (confidence_score || 0, language || undefined, segments || [])
NoResult == [raw |-> "", clean |-> "", summary |-> "",
             confidence |-> 0, language |-> "", segments |-> <<>>]

\* what callAIService returns: without a transcript the service reports no
\* confidence, language or segments and the defaults || 0, || 'unknown', || []
\* apply
AIResults ==
  {res \in [raw : RawTexts, clean : CleanTexts, summary : SummaryTexts,
            confidence : ServiceConfidences \cup {0},
            language : {"en", "unknown"},
            segments : {SegmentsOf(raw) : raw \in RawTexts}] :
     /\ (res.summary # "" => res.clean # "") /\ (res.clean # "" => res.raw # "")
     /\ res.segments = SegmentsOf(res.raw)
     /\ IF res.raw = "" THEN res.confidence = 0 /\ res.language = "unknown"
        ELSE res.confidence \in ServiceConfidences /\ res.language = "en"}

\* INSERT INTO recordings ... VALUES (..., 'uploaded', ...)
createRecording(d, id, mode) ==
  [x \in DOMAIN d \cup {id} |->
     IF x = id
       THEN [status |-> "uploaded", mode |-> mode,
             raw |-> "", clean |-> "", summary |-> "",
             confidence |-> 0, language |-> "", segments |-> <<>>]
       ELSE d[x]]

\* a status write that inserts the row when the recording has none
upsertRecordingStatus(d, id, status) ==
  [x \in DOMAIN d \cup {id} |->
     IF x # id THEN d[x]
     ELSE IF id \in DOMAIN d THEN [d[x] EXCEPT !.status = status]
     ELSE [status |-> status, mode |-> "", raw |-> "", clean |-> "", summary |-> "",
           confidence |-> 0, language |-> "", segments |-> <<>>]]

\* a status write that also empties the transcript columns
resetRecordingStatus(d, id, status) ==
  [x \in DOMAIN d |->
     IF x = id THEN [d[x] EXCEPT !.status = status, !.raw = "", !.clean = ""]
     ELSE d[x]]

\* UPDATE recordings SET status = ? WHERE id = ?   (no row: nothing changes)
updateRecordingStatus(d, id, status) ==
  [x \in DOMAIN d |-> IF x = id THEN [d[x] EXCEPT !.status = status] ELSE d[x]]

\* the summary passed as third argument is kept under the recording
saveSummary(row, res) == [row EXCEPT !.summary = res.summary]

\* a completing write that sets the status and leaves the outputs for later
completeWithoutOutputs(d, id, res) ==
  [x \in DOMAIN d |-> IF x = id THEN [d[x] EXCEPT !.status = "completed"] ELSE d[x]]

\* UPDATE recordings SET raw_transcript = ?, clean_transcript = ?,
\*   confidence_score = ?, language = ?, processing_time = ?, segments = ?,
\*   status = 'completed' WHERE id = ?
saveTranscriptionResult(d, id, res) ==
  [x \in DOMAIN d |->
     IF x = id
       THEN saveSummary([d[x] EXCEPT !.raw = res.raw, !.clean = res.clean,
                                     !.confidence = res.confidence,
                                     !.language = res.language,
                                     !.segments = res.segments,
                                     !.status = "completed"], res)
       ELSE d[x]]

\* a delete without its WHERE clause
deleteAllRecordings(d, id) == [x \in {} |-> d[x]]

\* DELETE FROM recordings WHERE id = ?
deleteRecording(d, id) == [x \in DOMAIN d \ {id} |-> d[x]]

\* the summary stored for a recording, null ("") when there is none
getSummary(d, id) == IF id \in DOMAIN d THEN d[id].summary ELSE ""

(* ----------------------------- Init ------------------------------------ *)

\* useState<RecordingState>({...}) and the refs of a hook that has not been
\* used; null is kept as the string "null"
initialState ==
  [isRecording |-> FALSE, isPaused |-> FALSE, isProcessing |-> FALSE,
   audioBlob |-> "null", recordingId |-> "null", error |-> "null"]

ClientInit ==
  /\ state = initialState
  /\ mediaRecorder = "null"
  /\ timerRef = "null"
  /\ poll = [pc |-> "idle", attempts |-> 0, recordingId |-> "null"]

Init ==
  /\ tick = 1
  /\ nextId = 1
  /\ db = [x \in {} |-> NoResult]
  /\ audio = [x \in {} |-> <<>>]
  /\ pc = [r \in RecIds |-> "none"]
  /\ result = [r \in RecIds |-> NoResult]
  /\ attempts = [r \in RecIds |-> 0]
  /\ svc = [r \in RecIds |-> [failed |-> "none", raw |-> "", clean |-> ""]]
  /\ exreq = [pc |-> "idle"]
  /\ nextExport = 1
  /\ files = {}
  /\ exportDirs = {}
  /\ sweep = [p \in Sweepers |-> [pc |-> "idle"]]
  /\ resp = NoResp
  /\ ClientInit

(* --------------------------- audio store ------------------------------- *)

\* a buffer is a sequence of bytes; req.file.buffer of an upload
Byte(b) == [byte |-> b]
AudioBuffer == <<Byte("R"), Byte("I"), Byte("F"), Byte("F")>>

\* the initialisation vectors crypto.randomBytes can draw
Ivs == {"iv_1", "iv_2"}

\* encryptAudio: IV + Tag + Encrypted data (concatenated), for the IV drawn
encryptAudio(buffer, iv) ==
  <<[iv |-> iv], [tag |-> <<iv, buffer>>]>>
  \o [i \in 1..Len(buffer) |-> [enc |-> buffer[i].byte, iv |-> iv]]

\* storage.saveAudio: fs.promises.writeFile(audioPath, buffer)
saveAudio(a, id, buffer) ==
  [x \in DOMAIN a \cup {id} |-> IF x = id THEN buffer ELSE a[x]]

\* storage.deleteRecording: fs.promises.rm(recordingPath, { recursive: true })
removeAudio(a, id) == [x \in DOMAIN a \ {id} |-> a[x]]

(* ------------------------ POST /api/audio ------------------------------ *)

UploadFaults == {"none", "saveAudio", "createRecording"}

\* the route's handler, on the server's side
UploadHandler(hasAudio, mode, fault) ==
  /\ nextId <= NumRecs
  /\ LET id == IdSeq[nextId] IN
     IF ~hasAudio THEN
       /\ resp' = [op |-> "POST /api/audio", code |-> 400,
                   error |-> "Missing audio file"]
       /\ UNCHANGED <<tick, nextId, db, audio, pipeVars, exportVars>>
     ELSE IF mode \notin validModes THEN
       /\ resp' = [op |-> "POST /api/audio", code |-> 400,
                   error |-> "Invalid mode", mode |-> mode]
       /\ UNCHANGED <<tick, nextId, db, audio, pipeVars, exportVars>>
     ELSE IF fault = "saveAudio" THEN
       /\ resp' = [op |-> "POST /api/audio", code |-> 500,
                   error |-> "Failed to upload audio"]
       /\ UNCHANGED <<tick, nextId, db, audio, pipeVars, exportVars>>
     ELSE IF fault = "createRecording" THEN
       /\ audio' = saveAudio(audio, id, AudioBuffer)
       /\ nextId' = nextId + 1
       /\ resp' = [op |-> "POST /api/audio", code |-> 500,
                   error |-> "Failed to upload audio"]
       /\ UNCHANGED <<tick, db, pipeVars, exportVars>>
     ELSE
       /\ audio' = saveAudio(audio, id, AudioBuffer)
       /\ db' = createRecording(db, id, mode)
       /\ nextId' = nextId + 1
       /\ pc' = [pc EXCEPT ![id] = "start"]
       /\ resp' = [op |-> "POST /api/audio", code |-> 200,
                   recordingId |-> id, status |-> "uploaded"]
       /\ UNCHANGED <<tick, result, attempts, svc, exportVars>>

\* an upload request that does not come from the hook
Upload(hasAudio, mode, fault) ==
  /\ UploadHandler(hasAudio, mode, fault)
  /\ UNCHANGED clientVars

(* ------------------------ processAudioAsync ---------------------------- *)

\* a query pair of the registry: the UPDATE throws, or the SELECT that reads
\* the row back throws, or neither
WriteFaults == {"none", "update", "readback"}

\* await database.updateRecordingStatus(recordingId, 'processing')
ProcStart(r, fault) ==
  /\ pc[r] = "start"
  /\ db' = IF fault = "update" THEN db
           ELSE updateRecordingStatus(db, r, "processing")
  /\ pc' = [pc EXCEPT ![r] = IF fault = "none" THEN "getRecording" ELSE "catch"]
  /\ resp' = NoResp
  /\ UNCHANGED <<tick, nextId, audio, result, attempts, svc, exportVars>>
  /\ UNCHANGED clientVars

\* const recording = await database.getRecording(recordingId)
ProcGetRecording(r, fault) ==
  /\ pc[r] = "getRecording"
  /\ pc' = [pc EXCEPT ![r] =
              IF fault = "none" /\ r \in DOMAIN db THEN "readAudio" ELSE "catch"]
  /\ resp' = NoResp
  /\ UNCHANGED <<tick, nextId, db, audio, result, attempts, svc, exportVars>>
  /\ UNCHANGED clientVars

\* const audioBuffer = await storage.readAudio(recordingId, recording.format)
ProcReadAudio(r, fault) ==
  /\ pc[r] = "readAudio"
  /\ pc' = [pc EXCEPT ![r] =
              IF fault = "none" /\ r \in DOMAIN audio THEN "callAIService" ELSE "catch"]
  /\ resp' = NoResp
  /\ UNCHANGED <<tick, nextId, db, audio, result, attempts, svc, exportVars>>
  /\ UNCHANGED clientVars

\* what the external service had produced when a stage of its run failed
Produced(stage, res) ==
  [failed |-> stage,
   raw |-> IF stage = "transcription" THEN "" ELSE res.raw,
   clean |-> IF stage = "summarization" THEN res.clean ELSE ""]

\* the runs of the external service: every stage succeeds, or one stage fails
\* after the earlier stages produced their (non-empty) output
ServiceRuns ==
  {[failed |-> "none", res |-> res] : res \in AIResults}
  \cup {[failed |-> s, res |-> [raw |-> "um so uh what was your role",
                                 clean |-> "What was your role?",
                                 summary |-> ""]] : s \in Stages}

\* const result = await callAIService(...): one fetch of /process/full;
\* a response that is not ok throws
ProcCallAI(r, run) ==
  /\ pc[r] = "callAIService"
  /\ attempts' = [attempts EXCEPT ![r] = @ + 1]
  /\ IF run.failed = "none"
       THEN /\ result' = [result EXCEPT ![r] = run.res]
            /\ svc' = [svc EXCEPT ![r] = [failed |-> "none", raw |-> run.res.raw,
                                          clean |-> run.res.clean]]
            /\ pc' = [pc EXCEPT ![r] = "save"]
       ELSE /\ svc' = [svc EXCEPT ![r] = Produced(run.failed, run.res)]
            /\ pc' = [pc EXCEPT ![r] = "catch"]
            /\ UNCHANGED result
  /\ resp' = NoResp
  /\ UNCHANGED <<tick, nextId, db, audio, exportVars>>
  /\ UNCHANGED clientVars

\* a save that fails the recording when the confidence is below 0.75
ProcSaveGated(r, fault) ==
  /\ pc[r] = "save"
  /\ db' = IF fault = "update" THEN db
           ELSE IF result[r].confidence < 7500
             THEN updateRecordingStatus(db, r, "failed")
           ELSE saveTranscriptionResult(db, r, result[r])
  /\ pc' = [pc EXCEPT ![r] = IF fault = "none" THEN "done" ELSE "catch"]
  /\ result' = [result EXCEPT ![r] = NoResult]
  /\ resp' = NoResp
  /\ UNCHANGED <<tick, nextId, audio, attempts, svc, exportVars>>
  /\ UNCHANGED clientVars

\* await database.saveTranscriptionResult(recordingId, {...}, summary)
ProcSave(r, fault) ==
  /\ pc[r] = "save"
  /\ db' = IF fault = "update" THEN db
           ELSE saveTranscriptionResult(db, r, result[r])
  /\ pc' = [pc EXCEPT ![r] = IF fault = "none" THEN "done" ELSE "catch"]
  /\ result' = [result EXCEPT ![r] = NoResult]
  /\ resp' = NoResp
  /\ UNCHANGED <<tick, nextId, audio, attempts, svc, exportVars>>
  /\ UNCHANGED clientVars

\* catch (error) { await database.updateRecordingStatus(recordingId, 'failed') }
\* a throw here rejects the promise, which the caller logs
ProcCatch(r, fault) ==
  /\ pc[r] = "catch"
  /\ db' = IF fault = "update" THEN db
           ELSE updateRecordingStatus(db, r, "failed")
  /\ pc' = [pc EXCEPT ![r] = IF fault = "none" THEN "done" ELSE "rejected"]
  /\ result' = [result EXCEPT ![r] = NoResult]
  /\ resp' = NoResp
  /\ UNCHANGED <<tick, nextId, audio, attempts, svc, exportVars>>
  /\ UNCHANGED clientVars

(* --------------------- DELETE /api/audio/:id --------------------------- *)

DeleteFaults == {"none", "db", "storage"}

DeleteRecording(r, fault) ==
  /\ IF fault = "db" THEN
       /\ resp' = [op |-> "DELETE /api/audio/:id", code |-> 500, id |-> r]
       /\ UNCHANGED <<db, audio>>
     ELSE IF fault = "storage" THEN
       /\ db' = deleteRecording(db, r)
       /\ resp' = [op |-> "DELETE /api/audio/:id", code |-> 500, id |-> r]
       /\ UNCHANGED audio
     ELSE
       /\ db' = deleteRecording(db, r)
       /\ audio' = removeAudio(audio, r)
       /\ resp' = [op |-> "DELETE /api/audio/:id", id |-> r,
                   code |-> IF r \in DOMAIN db THEN 200 ELSE 404]
  /\ UNCHANGED <<tick, nextId, pipeVars, exportVars>>
  /\ UNCHANGED clientVars

(* ------------------- GET /api/audio/:id/results ------------------------ *)

ReadFaults == {"none", "db"}

\* recording.language || 'unknown'
OrUnknown(language) == IF language = "" THEN "unknown" ELSE language

ResultsBody(d, r) ==
  IF d[r].status = "processing" THEN
    [status |-> "processing", message |-> "Audio is still being processed"]
  ELSE IF d[r].status = "failed" THEN
    [status |-> "failed", error |-> "Processing failed"]
  ELSE IF d[r].status = "completed" THEN
    [status |-> "completed",
     transcript |-> [rawText |-> d[r].raw, cleanText |-> d[r].clean,
                     confidenceScore |-> d[r].confidence,
                     language |-> OrUnknown(d[r].language),
                     segments |-> d[r].segments],
     summary |-> getSummary(d, r)]
  ELSE
    [status |-> "uploaded", message |-> "Audio is queued for processing"]

\* the answer of GET /api/audio/:id/results
ResultsAnswer(d, r, fault) ==
  IF fault = "db" THEN
    [op |-> "GET /api/audio/:id/results", id |-> r, code |-> 500]
  ELSE IF r \notin DOMAIN d THEN
    [op |-> "GET /api/audio/:id/results", id |-> r, code |-> 404]
  ELSE
    [op |-> "GET /api/audio/:id/results", id |-> r, code |-> 200,
     body |-> ResultsBody(d, r)]

GetResults(r, fault) ==
  /\ resp' = ResultsAnswer(db, r, fault)
  /\ UNCHANGED <<tick, nextId, db, audio, pipeVars, exportVars>>
  /\ UNCHANGED clientVars

(* ---------------- GET /api/audio/:id and /:id/download ----------------- *)

\* the answer of GET /api/audio/:id : the row's id, mode and status
InfoAnswer(d, r, fault) ==
  IF fault = "db" THEN
    [op |-> "GET /api/audio/:id", id |-> r, code |-> 500]
  ELSE IF r \notin DOMAIN d THEN
    [op |-> "GET /api/audio/:id", id |-> r, code |-> 404]
  ELSE
    [op |-> "GET /api/audio/:id", id |-> r, code |-> 200,
     mode |-> d[r].mode, status |-> d[r].status]

GetRecordingInfo(r, fault) ==
  /\ resp' = InfoAnswer(db, r, fault)
  /\ UNCHANGED <<tick, nextId, db, audio, pipeVars, exportVars>>
  /\ UNCHANGED clientVars

\* GET /api/audio/:id/download : getRecording, then storage.readAudio
DownloadAudio(r, fault) ==
  /\ resp' = IF fault = "db" THEN
               [op |-> "GET /api/audio/:id/download", id |-> r, code |-> 500]
             ELSE IF r \notin DOMAIN db \/ r \notin DOMAIN audio THEN
               [op |-> "GET /api/audio/:id/download", id |-> r, code |-> 404]
             ELSE
               [op |-> "GET /api/audio/:id/download", id |-> r, code |-> 200,
                bytes |-> audio[r]]
  /\ UNCHANGED <<tick, nextId, db, audio, pipeVars, exportVars>>
  /\ UNCHANGED clientVars

\* a retry that starts processAudioAsync again for a recording whose run is over
RetryRestartsRun(r, fault) ==
  /\ resp' = InfoAnswer(db, r, fault)
  /\ pc' = IF fault = "none" /\ r \in DOMAIN db /\ pc[r] = "done"
             THEN [pc EXCEPT ![r] = "start"] ELSE pc
  /\ UNCHANGED <<tick, nextId, db, audio, result, attempts, svc, exportVars>>
  /\ UNCHANGED clientVars

\* the page's retryTranscription: the request it sends is GET /api/audio/:id
\* (the results fetch that follows an ok answer is a GET /:id/results)
RetryTranscription(r, fault) == GetRecordingInfo(r, fault)

(* ------------------------ useAudioRecorder ----------------------------- *)
(* The hook as the page drives it: a button calls its callback when the     *)
(* page shows it enabled. mediaRecorder is "recording" or "paused" while    *)
(* the recorder is active, "stopping" when stop() has made it inactive and  *)
(* its stop event is still to be handled, "inactive" after that. pause(),   *)
(* resume() and stop() on an inactive recorder throw InvalidStateError, and *)
(* the callback ends there.                                                 *)

serverVars == <<tick, nextId, db, audio, pipeVars, exportVars>>

Active == {"recording", "paused"}

\* startRecording, called by the Start button (shown when not recording,
\* disabled while processing); ok: getUserMedia resolves and a mime type is
\* supported
StartRecording(ok) ==
  /\ ~state.isRecording /\ ~state.isProcessing
  /\ IF ok THEN
       /\ mediaRecorder' = "recording"
       /\ timerRef' = "interval"
       /\ state' = [state EXCEPT !.error = "null", !.isProcessing = FALSE,
                                 !.isRecording = TRUE]
     ELSE
       /\ state' = [state EXCEPT !.error = "Failed to start recording",
                                 !.isProcessing = FALSE, !.isRecording = FALSE]
       /\ UNCHANGED <<mediaRecorder, timerRef>>
  /\ resp' = NoResp
  /\ UNCHANGED <<serverVars, poll>>

\* pauseRecording, called by the Pause button (shown when recording and not
\* paused)
PauseRecording ==
  /\ state.isRecording /\ ~state.isPaused /\ ~state.isProcessing
  /\ mediaRecorder # "null"
  /\ IF mediaRecorder \in Active THEN
       /\ mediaRecorder' = "paused"
       /\ state' = [state EXCEPT !.isPaused = TRUE]
       /\ timerRef' = "null"
     ELSE UNCHANGED <<mediaRecorder, state, timerRef>>
  /\ resp' = NoResp
  /\ UNCHANGED <<serverVars, poll>>

\* resumeRecording, called by the Resume button (shown when recording and
\* paused); the callback itself tests mediaRecorderRef.current && isPaused
ResumeRecording ==
  /\ state.isRecording /\ state.isPaused /\ ~state.isProcessing
  /\ mediaRecorder # "null"
  /\ IF mediaRecorder \in Active THEN
       /\ mediaRecorder' = "recording"
       /\ state' = [state EXCEPT !.isPaused = FALSE]
       /\ timerRef' = "interval"
     ELSE UNCHANGED <<mediaRecorder, state, timerRef>>
  /\ resp' = NoResp
  /\ UNCHANGED <<serverVars, poll>>

\* stopRecording, called by the Stop button (shown when recording)
StopRecording ==
  /\ state.isRecording /\ ~state.isProcessing
  /\ mediaRecorder # "null"
  /\ IF mediaRecorder \in Active THEN
       /\ mediaRecorder' = "stopping"
       /\ timerRef' = "null"
     ELSE UNCHANGED <<mediaRecorder, timerRef>>
  /\ resp' = NoResp
  /\ UNCHANGED <<serverVars, state, poll>>

\* mediaRecorder.onstop up to the fetch of uploadAudio: the blob is built,
\* isRecording is cleared, uploadAudio sets isProcessing and sends the request
RecorderStop ==
  /\ mediaRecorder = "stopping"
  /\ mediaRecorder' = "inactive"
  /\ state' = [state EXCEPT !.audioBlob = "blob", !.isRecording = FALSE,
                            !.isProcessing = TRUE, !.error = "null"]
  /\ poll' = [poll EXCEPT !.pc = "upload"]
  /\ resp' = NoResp
  /\ UNCHANGED <<serverVars, timerRef>>

\* uploadAudio from the answer of POST /api/audio on: the server handles the
\* hook's request and the hook goes on with the answer
HookUpload(fault) ==
  /\ poll.pc = "upload"
  /\ UploadHandler(TRUE, "lecture", fault)
  /\ IF resp'.code = 200 THEN
       /\ state' = [state EXCEPT !.recordingId = resp'.recordingId]
       /\ poll' = [pc |-> "fetch", attempts |-> 0,
                   recordingId |-> resp'.recordingId]
     ELSE
       /\ state' = [state EXCEPT !.error = "Upload failed",
                                 !.isProcessing = FALSE]
       /\ poll' = [poll EXCEPT !.pc = "idle"]
  /\ UNCHANGED <<mediaRecorder, timerRef>>

maxAttempts == 60

\* a poll that goes on after a failed answer
pollOutcomeIgnoringFailed(answer, n) ==
  IF answer = NoResp \/ answer.code # 200 THEN "error"
  ELSE IF answer.body.status = "completed" THEN "completed"
  ELSE IF n >= maxAttempts THEN "timeout"
  ELSE "continue"

\* what poll() does with the answer of its n-th fetch (NoResp: the fetch
\* rejected)
pollOutcome(answer, n) ==
  IF answer = NoResp \/ answer.code # 200 THEN "error"
  ELSE IF answer.body.status = "completed" THEN "completed"
  ELSE IF answer.body.status = "failed" THEN "failed"
  ELSE IF n >= maxAttempts THEN "timeout"
  ELSE "continue"

PollFaults == {"none", "db", "network"}

\* poll(): attempts++, the fetch of /api/audio/<id>/results, and the branch
\* taken on its answer; when no further poll is scheduled the call is over and
\* its locals are gone
PollFetch(fault) ==
  /\ poll.pc = "fetch"
  /\ LET n == poll.attempts + 1
         answer == IF fault = "network" THEN NoResp
                   ELSE ResultsAnswer(db, poll.recordingId, fault)
         outcome == pollOutcome(answer, n)
     IN
     /\ resp' = answer
     /\ poll' = IF outcome = "continue"
                  THEN [poll EXCEPT !.attempts = n, !.pc = "timer"]
                  ELSE [pc |-> "idle", attempts |-> 0, recordingId |-> "null"]
     /\ state' =
          IF outcome = "continue" THEN state
          ELSE IF outcome = "completed" THEN [state EXCEPT !.isProcessing = FALSE]
          ELSE [state EXCEPT !.isProcessing = FALSE,
                             !.error = IF outcome = "failed" THEN "Processing failed"
                                       ELSE IF outcome = "timeout"
                                         THEN "Processing timed out"
                                       ELSE "Failed to get results"]
  /\ UNCHANGED <<serverVars, mediaRecorder, timerRef>>

\* setTimeout(poll, 5000) fires
PollTimer ==
  /\ poll.pc = "timer"
  /\ poll' = [poll EXCEPT !.pc = "fetch"]
  /\ resp' = NoResp
  /\ UNCHANGED <<serverVars, state, mediaRecorder, timerRef>>

(* --------------------------- templates --------------------------------- *)

\* A document is the sequence of its lines that carry text: the headings, the
\* metadata of the fields the registry rows of this model keep, the summary,
\* the two transcripts and the footer (blank lines and rules are left out).
\* A line is a literal, a literal followed by a value, or the footer with
\* the generation time.
Line(s) == [s |-> s]
Field(s, v) == [s |-> s, v |-> v]
Stamp(s, t) == [s |-> s, t |-> t]
\* a literal followed by a percentage with one decimal, kept as its number of
\* tenths of a percent, and "%"
Percent(s, p) == [s |-> s, p |-> p]

\* (confidenceScore * 100).toFixed(1): the nearest tenth of a percent. (On a
\* tie the binary expansion of the double decides the direction; the
\* confidences of this model have no tie.)
toFixed1(confidence) == (confidence + 5) \div 10

\* the exportData object both export routes build
ExportData(id, row, summary) ==
  [recordingId |-> id, mode |-> row.mode,
   language |-> OrUnknown(row.language),
   transcript |-> [rawText |-> row.raw, cleanText |-> row.clean,
                   confidenceScore |-> row.confidence,
                   segments |-> row.segments],
   summary |-> summary]

\* the clean text pushed as it is, with no fallback for an empty transcript
CleanNoPlaceholder(data) == data.transcript.cleanText

\* data.transcript.cleanText || 'No transcript available'
CleanOrPlaceholder(data) ==
  IF data.transcript.cleanText = "" THEN "No transcript available"
  ELSE data.transcript.cleanText

\* data.transcript.rawText || 'No raw transcript available'
RawOrPlaceholder(data) ==
  IF data.transcript.rawText = "" THEN "No raw transcript available"
  ELSE data.transcript.rawText

generateMarkdown(data, t) ==
  <<Line("# Whisper Export"), Line("## Metadata"),
    Field("- **Recording ID**: ", data.recordingId),
    Field("- **Mode**: ", data.mode),
    Field("- **Language**: ", data.language),
    Percent("- **Confidence**: ", toFixed1(data.transcript.confidenceScore))>>
  \o (IF data.summary # "" THEN <<Line("## Summary"), Field("", data.summary)>>
      ELSE <<>>)
  \o <<Line("## Transcript"), Field("", CleanOrPlaceholder(data)),
       Line("## Raw Transcript"), Field("", RawOrPlaceholder(data)),
       Stamp("*Exported from Whsp on ", t)>>

generateDocx(data, t) ==
  <<Line("Whisper Export"), Line("Metadata"),
    Field("Recording ID: ", data.recordingId),
    Field("Mode: ", data.mode),
    Field("Language: ", data.language),
    Percent("Confidence: ", toFixed1(data.transcript.confidenceScore))>>
  \o (IF data.summary # "" THEN <<Line("Summary"), Field("", data.summary)>>
      ELSE <<>>)
  \o <<Line("Transcript"),
       Line("Cleaned Transcript"), Field("", CleanOrPlaceholder(data)),
       Line("Raw Transcript"), Field("", RawOrPlaceholder(data)),
       Stamp("Exported from Whsp on ", t)>>

generatePdf(data, t) ==
  <<Line("Whisper Export"), Line("Metadata"),
    Field("Recording ID: ", data.recordingId),
    Field("Mode: ", data.mode),
    Field("Language: ", data.language),
    Percent("Confidence: ", toFixed1(data.transcript.confidenceScore))>>
  \o (IF data.summary # "" THEN <<Line("Summary"), Field("", data.summary)>>
      ELSE <<>>)
  \o <<Line("Transcript"),
       Line("Cleaned Transcript"), Field("", CleanOrPlaceholder(data)),
       Line("Raw Transcript"), Field("", RawOrPlaceholder(data)),
       Stamp("Exported from Whsp on ", t)>>

\* switch (format) { case 'md': ... case 'docx': ... case 'pdf': ... }
GenerateBuffer(format, data, t) ==
  [mimeType |-> format,
   content |-> IF format = "md" THEN generateMarkdown(data, t)
               ELSE IF format = "docx" THEN generateDocx(data, t)
               ELSE generatePdf(data, t)]

(* ------------------------ export routes -------------------------------- *)

\* a gate that stops only the recordings still in processing
OnlyProcessingStopped(row) == row.status = "processing"

\* if (recording.status !== 'completed') return res.status(400)
NotCompleted(row) == row.status # "completed"

\* the part of both export routes up to the status check: the response that
\* ends the request there, or NoResp when the request goes on
ExportGate(op, r, format, fault) ==
  IF format \notin Formats THEN
    [op |-> op, rid |-> r, code |-> 400, error |-> "Invalid format",
     bytes |-> NoBytes]
  ELSE IF fault = "db" THEN
    [op |-> op, rid |-> r, code |-> 500, error |-> "Failed to create export",
     bytes |-> NoBytes]
  ELSE IF r \notin DOMAIN db THEN
    [op |-> op, rid |-> r, code |-> 404, error |-> "Recording not found",
     bytes |-> NoBytes]
  ELSE IF NotCompleted(db[r]) THEN
    [op |-> op, rid |-> r, code |-> 400,
     error |-> "Recording is still processing or failed",
     status |-> db[r].status, bytes |-> NoBytes]
  ELSE NoResp

ExportFaults == {"none", "db", "summary"}

\* GET /api/export?recordingId=&format= : the document is sent, nothing stored
ExportDirect(r, format, fault) ==
  /\ LET gate == ExportGate("GET /api/export", r, format, fault) IN
     resp' = IF gate # NoResp THEN gate
             ELSE IF fault = "summary" THEN
               [op |-> "GET /api/export", rid |-> r, code |-> 500,
                error |-> "Failed to create export", bytes |-> NoBytes]
             ELSE
               [op |-> "GET /api/export", rid |-> r, code |-> 200,
                bytes |-> GenerateBuffer(format,
                            ExportData(r, db[r], getSummary(db, r)), now)]
  /\ UNCHANGED <<tick, nextId, db, audio, pipeVars, exportVars>>
  /\ UNCHANGED clientVars

\* POST /api/export up to the status check; the recording read here is the one
\* the document is rendered from
ExportCheck(r, format, fault) ==
  /\ exreq.pc = "idle"
  /\ LET gate == ExportGate("POST /api/export", r, format, fault) IN
     /\ resp' = gate
     /\ exreq' = IF gate # NoResp THEN exreq
                 ELSE [pc |-> "checked", rid |-> r, format |-> format,
                       recording |-> db[r]]
  /\ UNCHANGED <<tick, nextId, db, audio, pipeVars, nextExport, files, exportDirs,
                 sweep>>
  /\ UNCHANGED clientVars

\* a file name without the export id: one file per recording and format
FileNamePerFormat(rid, eid, ext) == <<"export-", rid, ".", ext>>

\* path.join(exportDir, `export-${recordingId}-${exportId}.${extension}`)
FileName(rid, eid, ext) == <<"export-", rid, "-", eid, ".", ext>>

\* exportService.saveExport: mkdir of the recording's directory, writeFile
\* (which replaces a file already at that path)
saveExport(fs, rid, eid, ext, buffer, t) ==
  LET name == FileName(rid, eid, ext) IN
  {f \in fs : ~(f.rid = rid /\ f.name = name)}
    \cup {[rid |-> rid, eid |-> eid, ext |-> ext, name |-> name,
            birthtime |-> t, buffer |-> buffer]}

WriteExportFaults == {"none", "summary", "writeFile"}

\* POST /api/export after the status check: getSummary, render, saveExport;
\* the answer carries the export id (as JSON, or as the target of a redirect
\* when the request asked for a download)
ExportWrite(fault) ==
  /\ exreq.pc = "checked"
  /\ exreq' = [pc |-> "idle"]
  /\ LET r == exreq.rid
         eid == ExportIdSeq[nextExport]
         buffer == GenerateBuffer(exreq.format,
                     ExportData(r, exreq.recording, getSummary(db, r)), now)
     IN
     IF fault = "summary" THEN
       /\ resp' = [op |-> "POST /api/export", rid |-> r, code |-> 500,
                   error |-> "Failed to create export", bytes |-> NoBytes]
       /\ UNCHANGED <<nextExport, files, exportDirs>>
     ELSE IF fault = "writeFile" THEN
       /\ exportDirs' = exportDirs \cup {r}
       /\ nextExport' = nextExport + 1
       /\ resp' = [op |-> "POST /api/export", rid |-> r, code |-> 500,
                   error |-> "Failed to create export", bytes |-> NoBytes]
       /\ UNCHANGED files
     ELSE
       /\ exportDirs' = exportDirs \cup {r}
       /\ files' = saveExport(files, r, eid, exreq.format, buffer, now)
       /\ nextExport' = nextExport + 1
       /\ resp' = [op |-> "POST /api/export", rid |-> r,
                   code |-> 200,
                   exportId |-> eid, format |-> exreq.format, bytes |-> NoBytes]
  /\ UNCHANGED <<tick, nextId, db, audio, pipeVars, sweep>>
  /\ UNCHANGED clientVars

(* ------------------------ export file store ---------------------------- *)

\* files.find((f) => f.includes(exportId)), on the parts of the file name
Includes(name, q) == \E i \in 1..Len(name) : name[i] = q

Matching(fs, q) == {f \in fs : Includes(f.name, q)}

\* expiresAt: new Date(stats.birthtime.getTime() + EXPORT_EXPIRY_MS)
ExpiresAt(f) == f.birthtime + EXPORT_EXPIRY_MS

\* getExportInfo: downloadCount: 0 (no count is kept with the file; readExport
\* reads the file and writes nothing)
downloadCount(fs, q) == 0

\* an expiry check that already refuses the export at its expiry instant
ExpiredAtDeadline(f, t) == t >= ExpiresAt(f)

\* if (new Date() > exportInfo.expiresAt) return res.status(410)
IsExpired(f, t) == t > ExpiresAt(f)

\* the ids a download or delete request carries
Queries == ExportIds

IoFaults == {"none", "io"}

\* GET /api/export/:id : getExportInfo, the expiry check, readExport
DownloadExport(q, fault) ==
  /\ IF fault = "io" THEN
       resp' = [op |-> "GET /api/export/:id", id |-> q, code |-> 500,
                error |-> "Failed to download export", bytes |-> NoBytes]
     ELSE IF Matching(files, q) = {} THEN
       resp' = [op |-> "GET /api/export/:id", id |-> q, code |-> 404,
                error |-> "Export not found or expired", bytes |-> NoBytes]
     ELSE \E f \in Matching(files, q) :
       resp' = IF IsExpired(f, now) THEN
                 [op |-> "GET /api/export/:id", id |-> q, code |-> 410,
                  error |-> "Export has expired", bytes |-> NoBytes]
               ELSE
                 [op |-> "GET /api/export/:id", id |-> q, code |-> 200,
                  bytes |-> f.buffer, expiresAt |-> ExpiresAt(f)]
  /\ UNCHANGED <<tick, nextId, db, audio, pipeVars, exportVars>>
  /\ UNCHANGED clientVars

\* exportService.deleteExport(recordingId, filename): unlink the file of that
\* name in the recording's directory, rmdir the directory if that empties it
deleteExport(fs, rid, filename) == {f \in fs : ~(f.rid = rid /\ f.name = filename)}

\* DELETE /api/export/:id : getExportInfo, then
\* deleteExport(exportInfo.recordingId, `${exportInfo.id}.${exportInfo.format}`)
DeleteExport(q, fault) ==
  /\ IF fault = "io" THEN
       /\ resp' = [op |-> "DELETE /api/export/:id", id |-> q, code |-> 500]
       /\ UNCHANGED <<files, exportDirs>>
     ELSE IF Matching(files, q) = {} THEN
       /\ resp' = [op |-> "DELETE /api/export/:id", id |-> q, code |-> 404]
       /\ UNCHANGED <<files, exportDirs>>
     ELSE \E f \in Matching(files, q) :
       LET left == deleteExport(files, f.rid, <<q, ".", f.ext>>) IN
       /\ files' = left
       /\ exportDirs' = IF left # files /\ ~\E g \in left : g.rid = f.rid
                          THEN exportDirs \ {f.rid} ELSE exportDirs
       /\ resp' = [op |-> "DELETE /api/export/:id", id |-> q,
                   code |-> IF left # files THEN 200 ELSE 404]
  /\ UNCHANGED <<tick, nextId, db, audio, pipeVars, exreq, nextExport, sweep>>
  /\ UNCHANGED clientVars

\* a sweep that already deletes an export at its expiry instant
SweepDeletesAtDeadline(f, t) == f.birthtime + EXPORT_EXPIRY_MS <= t

\* a sweep that lets an export live one minute past its expiry
SweepDeletesLate(f, t) == f.birthtime + EXPORT_EXPIRY_MS + 1 < t

\* if (stats.birthtime.getTime() + EXPORT_EXPIRY_MS < now) unlink
SweepDeletes(f, t) == f.birthtime + EXPORT_EXPIRY_MS < t

\* POST /api/export/cleanup : a cleanupExpiredExports call during which the
\* server handles no other request
Sweep ==
  /\ LET gone == {f \in files : SweepDeletes(f, now)} IN
     /\ files' = files \ gone
     /\ exportDirs' = {d \in exportDirs : \E f \in files \ gone : f.rid = d}
     /\ resp' = [op |-> "POST /api/export/cleanup", code |-> 200,
                 deletedCount |-> Cardinality(gone)]
  /\ UNCHANGED <<tick, nextId, db, audio, pipeVars, exreq, nextExport, sweep>>
  /\ UNCHANGED clientVars

(* cleanupExpiredExports, await by await. The function runs without          *)
(* interruption from one await to the next: the readdirSync and statSync     *)
(* calls of a stretch see one state of the file system. At                   *)
(* await fs.promises.unlink and await fs.promises.rmdir the server handles   *)
(* other requests; the call goes on when the file operation has been done.   *)

RECURSIVE ScanFiles(_, _, _)
RECURSIVE ScanDirs(_, _, _)

\* for (const file of files) { statSync; if (expired) await unlink } and the
\* readdirSync of the remaining files after the loop
ScanFiles(s, fs, ds) ==
  IF s.todo = {} THEN
    IF s.dir \notin ds THEN [pc |-> "failed"]
    ELSE IF {f \in fs : f.rid = s.dir} = {} THEN [s EXCEPT !.pc = "rmdir"]
    ELSE ScanDirs(s, fs, ds)
  ELSE LET f == CHOOSE x \in s.todo : TRUE IN
    IF f \notin fs THEN [pc |-> "failed"]
    ELSE IF SweepDeletes(f, s.t)
      THEN [s EXCEPT !.pc = "unlink", !.cur = {f}, !.todo = @ \ {f}]
    ELSE ScanFiles([s EXCEPT !.todo = @ \ {f}], fs, ds)

\* for (const recording of recordings) { statSync(recordingPath); readdirSync }
ScanDirs(s, fs, ds) ==
  IF s.dirs = {} THEN [pc |-> "done", count |-> s.count]
  ELSE LET d == CHOOSE x \in s.dirs : TRUE IN
    IF d \notin ds THEN [pc |-> "failed"]
    ELSE ScanFiles([s EXCEPT !.dirs = @ \ {d}, !.dir = d,
                             !.todo = {f \in fs : f.rid = d}], fs, ds)

\* where the call stands after a stretch: waiting for a file operation, or
\* returned (the route answers with the count), or thrown (the route answers 500)
Settle(p, s) ==
  IF s.pc = "done" THEN
    /\ sweep' = [sweep EXCEPT ![p] = [pc |-> "idle"]]
    /\ resp' = [op |-> "POST /api/export/cleanup", code |-> 200,
                deletedCount |-> s.count]
  ELSE IF s.pc = "failed" THEN
    /\ sweep' = [sweep EXCEPT ![p] = [pc |-> "idle"]]
    /\ resp' = [op |-> "POST /api/export/cleanup", code |-> 500,
                error |-> "Failed to clean up exports"]
  ELSE
    /\ sweep' = [sweep EXCEPT ![p] = s]
    /\ resp' = NoResp

\* const now = Date.now(); const recordings = fs.readdirSync(exportDir); ...
SweepStart(p) ==
  /\ sweep[p].pc = "idle"
  /\ Settle(p, ScanDirs([pc |-> "scan", t |-> now, dirs |-> exportDirs, dir |-> "",
                         todo |-> {}, cur |-> {}, count |-> 0],
                        files, exportDirs))
  /\ UNCHANGED <<tick, nextId, db, audio, pipeVars, exreq, nextExport, files,
                 exportDirs>>
  /\ UNCHANGED clientVars

\* await fs.promises.unlink(filePath); deletedCount++ ; the loop goes on.
\* unlink of a file that is gone rejects with ENOENT
SweepUnlink(p) ==
  /\ sweep[p].pc = "unlink"
  /\ IF sweep[p].cur \subseteq files
       THEN /\ files' = files \ sweep[p].cur
            /\ Settle(p, ScanFiles([sweep[p] EXCEPT !.count = @ + 1, !.cur = {}],
                                     files \ sweep[p].cur, exportDirs))
       ELSE /\ files' = files
            /\ Settle(p, [pc |-> "failed"])
  /\ UNCHANGED <<tick, nextId, db, audio, pipeVars, exreq, nextExport, exportDirs>>
  /\ UNCHANGED clientVars

\* await fs.promises.rmdir(recordingPath); the outer loop goes on. rmdir of a
\* directory that is gone (ENOENT) or holds a file again (ENOTEMPTY) rejects
SweepRmdir(p) ==
  /\ sweep[p].pc = "rmdir"
  /\ IF sweep[p].dir \in exportDirs /\ ~\E f \in files : f.rid = sweep[p].dir
       THEN /\ exportDirs' = exportDirs \ {sweep[p].dir}
            /\ Settle(p, ScanDirs(sweep[p], files, exportDirs \ {sweep[p].dir}))
       ELSE /\ exportDirs' = exportDirs
            /\ Settle(p, [pc |-> "failed"])
  /\ UNCHANGED <<tick, nextId, db, audio, pipeVars, exreq, nextExport, files>>
  /\ UNCHANGED clientVars

\* time passes to the next instant
Tick ==
  /\ tick < MaxTick
  /\ tick' = tick + 1
  /\ resp' = NoResp
  /\ UNCHANGED <<nextId, db, audio, pipeVars, exportVars>>
  /\ UNCHANGED clientVars

(* ----------------------------- Next ------------------------------------ *)

Next ==
  \/ \E a \in BOOLEAN, m \in UploadModes, f \in UploadFaults : Upload(a, m, f)
  \/ \E r \in RecIds, f \in WriteFaults : ProcStart(r, f)
  \/ \E r \in RecIds, f \in ReadFaults : ProcGetRecording(r, f)
  \/ \E r \in RecIds, f \in ReadFaults : ProcReadAudio(r, f)
  \/ \E r \in RecIds, run \in ServiceRuns : ProcCallAI(r, run)
  \/ \E r \in RecIds, f \in WriteFaults : ProcSave(r, f)
  \/ \E r \in RecIds, f \in WriteFaults : ProcCatch(r, f)
  \/ \E r \in KnownIds, f \in DeleteFaults : DeleteRecording(r, f)
  \/ \E r \in KnownIds, f \in ReadFaults : GetResults(r, f)

Spec == Init /\ [][Next]_vars

(* ------------------ the export side of the system ---------------------- *)
(* ExportSpec starts from a recording as a run of the pipeline leaves it     *)
(* (every such state is a reachable state of Spec) and runs the export       *)
(* routes against it.                                                        *)

\* the states in which a recording's run has been left by the pipeline, as
\* rows of (status, stored result, position of the run, calls made)
EndedRuns ==
  {[status |-> "uploaded", res |-> NoResult, pc |-> "rejected", attempts |-> 0],
   [status |-> "processing", res |-> NoResult, pc |-> "rejected", attempts |-> 0],
   [status |-> "failed", res |-> NoResult, pc |-> "done", attempts |-> 0]}
  \cup {[status |-> "completed", res |-> res, pc |-> p, attempts |-> 1] :
          res \in {x \in AIResults : x.confidence \in {0, 9000}},
          p \in {"done", "catch"}}

\* one uploaded recording whose run has ended or is about to run its catch
\* block after the completing write; no export has been requested yet
ExportInit ==
  /\ tick = 1
  /\ nextId = 2
  /\ audio = [x \in {IdSeq[1]} |-> AudioBuffer]
  /\ \E e \in EndedRuns, m \in {"interview"} :
       /\ db = [x \in {IdSeq[1]} |->
                  [status |-> e.status, mode |-> m, raw |-> e.res.raw,
                   clean |-> e.res.clean, summary |-> e.res.summary,
                   confidence |-> e.res.confidence,
                   language |-> e.res.language,
                   segments |-> e.res.segments]]
       /\ pc = [r \in RecIds |-> IF r = IdSeq[1] THEN e.pc ELSE "none"]
       /\ attempts = [r \in RecIds |-> IF r = IdSeq[1] THEN e.attempts ELSE 0]
       /\ svc = [r \in RecIds |->
                   IF r = IdSeq[1] /\ e.attempts = 1
                     THEN [failed |-> "none", raw |-> e.res.raw, clean |-> e.res.clean]
                     ELSE [failed |-> "none", raw |-> "", clean |-> ""]]
  /\ result = [r \in RecIds |-> NoResult]
  /\ exreq = [pc |-> "idle"]
  /\ nextExport = 1
  /\ files = {}
  /\ exportDirs = {}
  /\ sweep = [p \in Sweepers |-> [pc |-> "idle"]]
  /\ resp = NoResp
  /\ ClientInit

\* the export routes, the clock, and what can change a recording meanwhile: its
\* deletion and the catch block of its run (faults that only touch the audio
\* store or the run's own promise are left to Spec)
ExportNext ==
  \/ \E r \in KnownIds, fmt \in RequestFormats, f \in ExportFaults :
       ExportDirect(r, fmt, f)
  \/ \E r \in KnownIds, fmt \in RequestFormats, f \in ExportFaults :
       nextExport <= MaxExports /\ ExportCheck(r, fmt, f)
  \/ \E f \in WriteExportFaults : ExportWrite(f)
  \/ \E q \in Queries, f \in IoFaults : DownloadExport(q, f)
  \/ \E q \in Queries, f \in IoFaults : DeleteExport(q, f)
  \/ Sweep
  \/ Tick
  \/ \E r \in KnownIds, f \in {"none", "db"} : DeleteRecording(r, f)
  \/ \E r \in RecIds, f \in {"none", "update"} : ProcCatch(r, f)

ExportSpec == ExportInit /\ [][ExportNext]_vars

(* ------------------- cleanup requests side by side --------------------- *)
(* SweepSpec starts from a completed recording whose run is over and runs   *)
(* POST /api/export against it, the clock, and two cleanup requests, each   *)
(* of them await by await.                                                  *)

SweepInit ==
  /\ ExportInit
  /\ db[IdSeq[1]].status = "completed"
  /\ pc[IdSeq[1]] = "done"

SweepNext ==
  \/ \E r \in KnownIds, fmt \in Formats :
       nextExport <= MaxExports /\ ExportCheck(r, fmt, "none")
  \/ \E f \in WriteExportFaults : ExportWrite(f)
  \/ \E q \in Queries : DownloadExport(q, "none")
  \/ Tick
  \/ \E p \in Sweepers : SweepStart(p)
  \/ \E p \in Sweepers : SweepUnlink(p)
  \/ \E p \in Sweepers : SweepRmdir(p)

SweepSpec == SweepInit /\ [][SweepNext]_vars

(* ------------------- several exports of one recording ------------------ *)
(* CoexistSpec starts from a completed recording whose run is over and      *)
(* stores one export more than the other specifications do, with the clock, *)
(* downloads and the cleanup.                                               *)

CoexistExports == MaxExports + 1

CoexistQueries == {ExportIdSeq[i] : i \in 1..CoexistExports}

CoexistNext ==
  \/ \E r \in KnownIds, fmt \in Formats :
       nextExport <= CoexistExports /\ ExportCheck(r, fmt, "none")
  \/ \E f \in WriteExportFaults : ExportWrite(f)
  \/ \E q \in CoexistQueries : DownloadExport(q, "none")
  \/ Sweep
  \/ Tick

CoexistSpec == SweepInit /\ [][CoexistNext]_vars

(* ------------------- downloads under any request id -------------------- *)
(* LookupSpec starts like CoexistSpec and sends download requests whose id  *)
(* is an export id or another part of a stored file's name.                 *)

LookupQueries == ExportIds \cup {"export-", IdSeq[1], "md"}

LookupNext ==
  \/ \E r \in KnownIds, fmt \in Formats :
       nextExport <= MaxExports /\ ExportCheck(r, fmt, "none")
  \/ \E f \in WriteExportFaults : ExportWrite(f)
  \/ \E q \in LookupQueries : DownloadExport(q, "none")
  \/ Tick

LookupSpec == SweepInit /\ [][LookupNext]_vars

(* ----------------------- two recordings at once ------------------------ *)
(* PairSpec starts when two uploads have been answered and runs the two     *)
(* pipeline runs, deletes and a stored export side by side.                 *)

PairIds == {IdSeq[1], IdSeq[2]}

PairInit ==
  /\ tick = 1
  /\ nextId = 3
  /\ db = createRecording(createRecording([x \in {} |-> NoResult],
                                          IdSeq[1], "lecture"),
                          IdSeq[2], "interview")
  /\ audio = saveAudio(saveAudio([x \in {} |-> <<>>], IdSeq[1], AudioBuffer),
                       IdSeq[2], AudioBuffer)
  /\ pc = [r \in PairIds |-> "start"]
  /\ result = [r \in PairIds |-> NoResult]
  /\ attempts = [r \in PairIds |-> 0]
  /\ svc = [r \in PairIds |-> [failed |-> "none", raw |-> "", clean |-> ""]]
  /\ exreq = [pc |-> "idle"]
  /\ nextExport = 1
  /\ files = {}
  /\ exportDirs = {}
  /\ sweep = [p \in Sweepers |-> [pc |-> "idle"]]
  /\ resp = NoResp
  /\ ClientInit

\* the service's answers used for the pair: a full result or a failed call
PairRuns ==
  {run \in ServiceRuns :
     IF run.failed = "none"
     THEN run.res.summary # "" /\ run.res.confidence = 9000
     ELSE run.failed = "transcription"}

PairNext ==
  \/ \E r \in PairIds : ProcStart(r, "none")
  \/ \E r \in PairIds : ProcGetRecording(r, "none")
  \/ \E r \in PairIds : ProcReadAudio(r, "none")
  \/ \E r \in PairIds, run \in PairRuns : ProcCallAI(r, run)
  \/ \E r \in PairIds, f \in WriteFaults : ProcSave(r, f)
  \/ \E r \in PairIds, f \in WriteFaults : ProcCatch(r, f)
  \/ \E r \in PairIds, f \in DeleteFaults : DeleteRecording(r, f)
  \/ \E r \in PairIds :
       nextExport <= MaxExports /\ ExportCheck(r, "md", "none")
  \/ ExportWrite("none")

PairSpec == PairInit /\ [][PairNext]_vars

(* ------------------- every request on a recording --------------------- *)
(* RequestsSpec runs the uploads and the pipeline with every request the    *)
(* routes and the page offer for a recording: results, info, download of    *)
(* the audio, direct export and the page's retry.                           *)

RequestsNext ==
  \/ \E a \in BOOLEAN, m \in UploadModes, f \in UploadFaults : Upload(a, m, f)
  \/ \E r \in RecIds : ProcStart(r, "none")
  \/ \E r \in RecIds : ProcGetRecording(r, "none")
  \/ \E r \in RecIds : ProcReadAudio(r, "none")
  \/ \E r \in RecIds, run \in PairRuns : ProcCallAI(r, run)
  \/ \E r \in RecIds, f \in WriteFaults : ProcSave(r, f)
  \/ \E r \in RecIds : ProcCatch(r, "none")
  \/ \E r \in KnownIds : GetResults(r, "none")
  \/ \E r \in KnownIds, f \in ReadFaults : GetRecordingInfo(r, f)
  \/ \E r \in KnownIds, f \in ReadFaults : DownloadAudio(r, f)
  \/ \E r \in KnownIds : ExportDirect(r, "md", "none")
  \/ \E r \in KnownIds, f \in ReadFaults : RetryTranscription(r, f)

RequestsSpec == Init /\ [][RequestsNext]_vars

(* --------------------- the hook and its recording ---------------------- *)
(* HookSpec runs the hook from its first use, with the pipeline runs of the *)
(* recordings it uploads and their deletion. The timer of a poll fires and  *)
(* a fetch settles (with an answer or with a rejection).                    *)

HookNext ==
  \/ \E ok \in BOOLEAN : StartRecording(ok)
  \/ PauseRecording
  \/ ResumeRecording
  \/ StopRecording
  \/ RecorderStop
  \/ \E f \in UploadFaults : HookUpload(f)
  \/ \E f \in PollFaults : PollFetch(f)
  \/ PollTimer
  \/ \E r \in RecIds : ProcStart(r, "none")
  \/ \E r \in RecIds : ProcGetRecording(r, "none")
  \/ \E r \in RecIds : ProcReadAudio(r, "none")
  \/ \E r \in RecIds, run \in PairRuns : ProcCallAI(r, run)
  \/ \E r \in RecIds : ProcSave(r, "none")
  \/ \E r \in RecIds : ProcCatch(r, "none")
  \/ \E r \in KnownIds : DeleteRecording(r, "none")

HookSpec ==
  /\ Init
  /\ [][HookNext]_vars
  /\ WF_vars(PollTimer)
  /\ WF_vars(\E f \in PollFaults : PollFetch(f))

(* ------------------ the direct export as a function -------------------- *)
(* RoundTripSpec starts from one completed recording, of any mode and with  *)
(* any of a set of storable confidences, and serves GET /api/export for it. *)

\* values of a DECIMAL(5,4) column between 0 and 1, in ten-thousandths
StorableConfidences == {0, 5500, 5551, 9000, 9999, 10000}

\* the results a run can have stored, over the storable confidences
StoredResults ==
  {x \in AIResults : x.raw = ""}
  \cup {[x EXCEPT !.confidence = c] :
          x \in {y \in AIResults : y.raw # ""}, c \in StorableConfidences}

RoundTripInit ==
  /\ tick = 1
  /\ nextId = 2
  /\ audio = [x \in {IdSeq[1]} |-> AudioBuffer]
  /\ \E res \in StoredResults, m \in validModes :
       /\ db = [x \in {IdSeq[1]} |->
                  [status |-> "completed", mode |-> m, raw |-> res.raw,
                   clean |-> res.clean, summary |-> res.summary,
                   confidence |-> res.confidence,
                   language |-> res.language,
                   segments |-> res.segments]]
       /\ svc = [r \in RecIds |->
                   IF r = IdSeq[1]
                     THEN [failed |-> "none", raw |-> res.raw, clean |-> res.clean]
                     ELSE [failed |-> "none", raw |-> "", clean |-> ""]]
  /\ pc = [r \in RecIds |-> IF r = IdSeq[1] THEN "done" ELSE "none"]
  /\ attempts = [r \in RecIds |-> IF r = IdSeq[1] THEN 1 ELSE 0]
  /\ result = [r \in RecIds |-> NoResult]
  /\ exreq = [pc |-> "idle"]
  /\ nextExport = 1
  /\ files = {}
  /\ exportDirs = {}
  /\ sweep = [p \in Sweepers |-> [pc |-> "idle"]]
  /\ resp = NoResp
  /\ ClientInit

RoundTripNext ==
  \E r \in KnownIds, fmt \in RequestFormats, f \in ExportFaults :
    ExportDirect(r, fmt, f)

RoundTripSpec == RoundTripInit /\ [][RoundTripNext]_vars

(* ===================== properties of the pipeline ====================== *)

Terminal == {"completed", "failed"}
Ended(r) == pc[r] \in {"done", "rejected"}

\* C1: the persisted status of a recording only ever changes along
\* uploaded -> processing, processing -> completed, processing -> failed.
C1_StatusEdges ==
  [][\A r \in DOMAIN db \cap DOMAIN db' :
       db[r].status # db'[r].status =>
         <<db[r].status, db'[r].status>> \in
           {<<"uploaded", "processing">>, <<"processing", "completed">>,
            <<"processing", "failed">>}]_vars

\* C2: completed and failed are absorbing: a recording that is completed or
\* failed keeps that status for as long as its row exists.
C2_TerminalAbsorbing ==
  [][\A r \in DOMAIN db \cap DOMAIN db' :
       db[r].status \in Terminal => db'[r].status = db[r].status]_vars

\* C3: a recording whose transcription stage failed is failed after exactly 3
\* calls of the transcription stage, and no run makes a 4th call.
C3_ExactlyThreeAttempts ==
  \A r \in RecIds :
    /\ attempts[r] <= 3
    /\ (r \in DOMAIN db /\ db[r].status = "failed" /\ svc[r].failed = "transcription")
         => attempts[r] = 3

\* C4: a run of the pipeline never ends leaving its recording in a status that
\* is not terminal: when the run is over the recording is completed, failed
\* or deleted.
C4_RunEndsTerminal ==
  \A r \in RecIds :
    (Ended(r) /\ r \in DOMAIN db) => db[r].status \in Terminal

\* C5: when the run failed in cleanup or summarization, the raw and clean
\* transcripts the earlier stages produced are stored on the failed recording.
C5_PartialResultsKept ==
  \A r \in DOMAIN db :
    (db[r].status = "failed" /\ svc[r].failed \in {"cleanup", "summarization"})
      => (db[r].raw = svc[r].raw /\ db[r].clean = svc[r].clean)

StageErrors == {"transcription failed", "cleanup failed", "summarization failed"}

\* C6: the results returned for a failed recording name the stage that failed
\* and carry the transcript text obtained before the failure.
C6_FailedResultsNameStage ==
  (resp.op = "GET /api/audio/:id/results" /\ resp.code = 200
     /\ resp.body.status = "failed")
    => (resp.body.error \in StageErrors /\ "partialResults" \in DOMAIN resp.body)

\* the step is a DELETE /api/audio/:id of recording r
AnswersDelete(r) == resp'.op = "DELETE /api/audio/:id" /\ resp'.id = r

\* C13: a delete of a recording does not move its run; when it has answered
\* with success the recording has no row; a recording whose row is gone
\* never gets a row again, whatever its run writes afterwards; and its
\* results are answered not-found (500 on a database fault) from then on.
C13_DeleteDuringRunTolerated ==
  [][\A r \in KnownIds :
       /\ AnswersDelete(r) => pc'[r] = pc[r]
       /\ (AnswersDelete(r) /\ resp'.code = 200) => r \notin DOMAIN db'
       /\ r \notin DOMAIN db => r \notin DOMAIN db'
       /\ (r \notin DOMAIN db /\ resp'.op = "GET /api/audio/:id/results"
             /\ resp'.id = r) => resp'.code \in {404, 500}]_vars

\* a recording is deleted while its run holds the service's result, which
\* it is about to save
C13_Witness ==
  /\ resp.op = "DELETE /api/audio/:id"
  /\ resp.code = 200
  /\ pc[resp.id] = "save"
  /\ resp.id \notin DOMAIN db

\* the stored fields the results of a completed recording are made of
Payload(row) ==
  <<row.raw, row.clean, row.confidence, row.language, row.segments, row.summary>>

C19_ConfidenceInUnitInterval ==
  \A r \in DOMAIN db : db[r].confidence >= 0 /\ db[r].confidence <= 10000

\* C20: the results of a completed recording carry a low-confidence warning
\* exactly when the confidence is below 0.75.
C20_LowConfidenceFlagged ==
  (resp.op = "GET /api/audio/:id/results" /\ resp.code = 200
     /\ resp.body.status = "completed")
    => ("warning" \in DOMAIN resp.body
          <=> resp.body.transcript.confidenceScore < 7500)

\* C21: the confidence never gates success. Whether the service call leads
\* to the save depends on the stages alone; a save that meets no fault
\* completes the recording whatever the confidence; and the row a save
\* writes for any other confidence differs in the confidence column only.
C21_ConfidenceNeverGates ==
  [][\A r \in RecIds :
       /\ (pc[r] = "callAIService" /\ pc'[r] # pc[r])
            => (pc'[r] = "save" <=> svc'[r].failed = "none")
       /\ (pc[r] = "save" /\ pc'[r] = "done" /\ r \in DOMAIN db)
            => (r \in DOMAIN db' /\ db'[r].status = "completed")
       /\ (pc[r] = "save" /\ r \in DOMAIN db) =>
            \A c \in ServiceConfidences \cup {0} :
              LET act == saveTranscriptionResult(db, r, result[r])
                  alt == saveTranscriptionResult(db, r,
                           [result[r] EXCEPT !.confidence = c])
              IN [alt[r] EXCEPT !.confidence = act[r].confidence] = act[r]]_vars

\* a run has completed its recording with confidence 0
C21_Witness ==
  \E r \in DOMAIN db :
    db[r].status = "completed" /\ db[r].confidence = 0 /\ pc[r] = "done"

\* C22: the response to the request that triggers the pipeline reports
\* status processing.
C22_TriggerReportsProcessing ==
  (resp.op = "POST /api/audio" /\ resp.code = 200) => resp.status = "processing"

C24_FailedOnlyAfterBudget ==
  \A r \in DOMAIN db :
    (Ended(r) /\ svc[r].failed \in Stages /\ attempts[r] < 3)
      => db[r].status # "failed"

\* C25: the results of a completed recording say whether the preprocessing
\* fallback was used.
C25_FallbackFlagVisible ==
  (resp.op = "GET /api/audio/:id/results" /\ resp.code = 200
     /\ resp.body.status = "completed")
    => "usedFallback" \in DOMAIN resp.body

\* C28: the step that makes a recording completed is the save of its run and
\* writes, in that same step, the transcripts, confidence, language and
\* segments the run holds; and a results read of a completed recording
\* returns the stored outputs.
C28_CompletedWithOutputs ==
  [][/\ \A r \in DOMAIN db' :
          (db'[r].status = "completed"
             /\ (r \notin DOMAIN db \/ db[r].status # "completed"))
          => /\ pc[r] = "save"
             /\ db'[r].raw = result[r].raw
             /\ db'[r].clean = result[r].clean
             /\ db'[r].confidence = result[r].confidence
             /\ db'[r].language = result[r].language
             /\ db'[r].segments = result[r].segments
     /\ (resp'.op = "GET /api/audio/:id/results" /\ resp'.code = 200
           /\ resp'.body.status = "completed")
          => /\ resp'.body.transcript.rawText = db[resp'.id].raw
             /\ resp'.body.transcript.cleanText = db[resp'.id].clean
             /\ resp'.body.transcript.confidenceScore = db[resp'.id].confidence
             /\ resp'.body.transcript.segments = db[resp'.id].segments]_vars

\* the completing write is visible, with the outputs, before the run is over
C28_Witness ==
  \E r \in DOMAIN db :
    /\ db[r].status = "completed"
    /\ pc[r] = "catch"
    /\ db[r].raw # ""
    /\ db[r].confidence = 5500

\* C30: every stored audio file is the AES-256-GCM encryption of the uploaded
\* bytes under some initialisation vector.
C30_StoredAudioEncrypted ==
  \A r \in DOMAIN audio : \E iv \in Ivs : audio[r] = encryptAudio(AudioBuffer, iv)

\* what the system keeps for recording r: its row, its audio file, its
\* export files and the state of its run
Kept(r, d, a, fs, p, res, att) ==
  <<IF r \in DOMAIN d THEN <<d[r]>> ELSE <<>>,
    IF r \in DOMAIN a THEN <<a[r]>> ELSE <<>>,
    {f \in fs : f.rid = r}, p[r], res[r], att[r]>>

Touched(r) ==
  Kept(r, db, audio, files, pc, result, attempts)
    # Kept(r, db', audio', files', pc', result', attempts')

\* C27: no step changes what is kept for two different recordings: a step of
\* the run of one recording, a write to its row, its delete or its export
\* leaves the row, audio file, export files and run of every other recording
\* as they were.
C27_RecordingsIsolated ==
  [][\A a \in DOMAIN pc, b \in DOMAIN pc :
       (a # b /\ Touched(a)) => ~Touched(b)]_vars

\* one recording is completed and exported while the other has been deleted
\* in the middle of its run
C27_Witness ==
  /\ IdSeq[2] \in DOMAIN db
  /\ db[IdSeq[2]].status = "completed"
  /\ \E f \in files : f.rid = IdSeq[2]
  /\ IdSeq[1] \notin DOMAIN db
  /\ pc[IdSeq[1]] = "callAIService"

Polling == poll.pc \in {"fetch", "timer"}

\* the answer of the fetch just made ends the poll: a rejected fetch, an
\* answer that is not ok, or a completed or failed recording
TerminalAnswer ==
  \/ resp' = NoResp
  \/ resp'.code # 200
  \/ resp'.body.status \in {"completed", "failed"}

\* C31: a poll makes at most 60 fetches; it ends with the first fetch that
\* is rejected or answered not ok, completed or failed, and otherwise with
\* its 60th fetch, then reporting 'Processing timed out'; when it ends
\* isProcessing is false; and every poll ends.
C31_PollingStops ==
  /\ [](/\ poll.attempts <= maxAttempts
        /\ Polling => poll.attempts < maxAttempts /\ state.isProcessing)
  /\ [][(poll.pc = "fetch" /\ poll'.pc # "fetch") =>
          /\ poll'.pc = "idle" <=>
               (TerminalAnswer \/ poll.attempts + 1 = maxAttempts)
          /\ poll'.pc = "idle" => ~state'.isProcessing
          /\ (poll'.pc = "idle" /\ ~TerminalAnswer)
               => state'.error = "Processing timed out"]_vars
  /\ Polling ~> (poll.pc = "idle" /\ ~state.isProcessing)

\* a poll has ended after its 60th fetch found the recording still in
\* processing
C31_Witness ==
  /\ poll.pc = "idle" /\ ~state.isProcessing
  /\ state.error = "Processing timed out"
  /\ resp.op = "GET /api/audio/:id/results"
  /\ resp.body.status = "processing"

\* C38: in the hook's state, paused implies recording.
C38_PausedImpliesRecording == state.isPaused => state.isRecording

\* C33: an upload that brings an audio file and no mode is not turned away
\* for its mode (it is accepted with the mode lecture).
C33_MissingModeDefaultsToLecture ==
  ~(/\ resp.op = "POST /api/audio"
    /\ resp.code = 400
    /\ resp.error = "Invalid mode"
    /\ resp.mode = "")

\* C37: when an upload or a delete of a recording has been answered, the ids
\* that have an audio file are the ids that have a row.
C37_AudioAgreesWithRegistry ==
  resp.op \in {"POST /api/audio", "DELETE /api/audio/:id"}
    => DOMAIN audio = DOMAIN db

(* ====================== properties of the exports ====================== *)

\* C29: storing an export never removes, replaces or alters a file stored
\* before it, also one of the same recording and format; every stored file is
\* the only one its export id finds, and a download that answers 200 sends the
\* bytes of the file stored under the id asked for, until that file expires.
C29_ArtifactsCoexist ==
  [][/\ nextExport' # nextExport => files \subseteq files'
     /\ \A f \in files' : Matching(files', f.eid) = {f}
     /\ (resp'.op = "GET /api/export/:id" /\ resp'.code = 200) =>
          \E f \in files : /\ f.eid = resp'.id
                           /\ resp'.bytes = f.buffer
                           /\ ~IsExpired(f, now)
     /\ \A f \in files :
          (resp'.op = "GET /api/export/:id" /\ resp'.id = f.eid
             /\ ~IsExpired(f, now)) => resp'.code = 200]_vars

\* C32: a download that sends the bytes of an export raises the download
\* count of that export by one.
C32_DownloadCounted ==
  [][(resp'.op = "GET /api/export/:id" /\ resp'.code = 200) =>
       downloadCount(files', resp'.id) = downloadCount(files, resp'.id) + 1]_vars

\* the export ids POST /api/export has generated so far
Issued == {ExportIdSeq[i] : i \in 1..(nextExport - 1)}

\* C34: a download request finds an export (answers with its bytes or with
\* expired) only under an id that POST /api/export generated.
C34_LookupExact ==
  (resp.op = "GET /api/export/:id" /\ resp.code \in {200, 410})
    => resp.id \in Issued

\* C35: at every instant the cleanup and the download judge every stored
\* export alike: the cleanup deletes exactly the exports a download at that
\* instant answers with expired, so every export it deletes was expired for
\* a download and every export still downloadable stays, also at its expiry
\* instant.
C35_SweepAgreesWithDownload ==
  [][/\ \A f \in files : SweepDeletes(f, now) <=> IsExpired(f, now)
     /\ resp'.op = "POST /api/export/cleanup" =>
          /\ \A f \in files \ files' : IsExpired(f, now)
          /\ \A f \in files : ~IsExpired(f, now) => f \in files']_vars

\* a cleanup has run at the expiry instant of a stored export and has left it
C35_Witness ==
  /\ resp.op = "POST /api/export/cleanup"
  /\ \E f \in files : now = ExpiresAt(f)

\* two exports of one recording in one format are stored, with different
\* bytes, and the earlier one has just been downloaded
C29_Witness ==
  \E f \in files, g \in files :
    /\ f.rid = g.rid /\ f.ext = g.ext /\ f.eid # g.eid
    /\ f.birthtime < g.birthtime /\ f.buffer # g.buffer
    /\ resp.op = "GET /api/export/:id" /\ resp.code = 200
    /\ resp.id = f.eid /\ resp.bytes = f.buffer

ExportOps == {"GET /api/export", "POST /api/export"}

\* the step answers a new export request for recording r
AnswersExportRequest(r) ==
  /\ resp'.op \in ExportOps
  /\ resp'.rid = r
  /\ resp'.op = "POST /api/export" => exreq.pc = "idle"

\* C7: an export request for a recording that is uploaded, processing or
\* failed is answered at once with an error and no document bytes, leaves no
\* request pending, and leaves the stored export files as they were.
C7_NonCompletedExportRejected ==
  [][\A r \in DOMAIN db :
       (db[r].status \in {"uploaded", "processing", "failed"}
          /\ AnswersExportRequest(r))
       => /\ resp'.code \in {400, 500}
          /\ resp'.bytes = NoBytes
          /\ exreq' = exreq
          /\ files' = files
          /\ exportDirs' = exportDirs]_vars

\* a failed recording's POST /api/export is turned down with its status
C7_Witness ==
  /\ resp.op = "POST /api/export"
  /\ resp.code = 400
  /\ "status" \in DOMAIN resp
  /\ resp.status = "failed"

\* C8: an export file is only ever written for a recording that exists with
\* status completed at the moment of the write.
C8_ArtifactOnlyFromCompleted ==
  [][\A f \in files' \ files :
       f.rid \in DOMAIN db /\ db[f.rid].status = "completed"]_vars

NoTranscript(r) ==
  r \in DOMAIN db /\ db[r].status = "completed"
    /\ db[r].raw = "" /\ db[r].clean = ""

HasLine(content, line) == \E i \in 1..Len(content) : content[i] = line

HasPlaceholders(buffer) ==
  /\ HasLine(buffer.content, Field("", "No transcript available"))
  /\ HasLine(buffer.content, Field("", "No raw transcript available"))

\* C9 as stated: an export of a completed recording with no transcript fails
\* and produces no document and no export file.
C9_NoTranscriptExportFails ==
  \A r \in RecIds :
    NoTranscript(r) =>
      /\ (resp.op \in ExportOps /\ resp.rid = r) => resp.code \in {400, 500}
      /\ \A f \in files : f.rid # r

\* C9 amended: an export of a completed recording with no transcript is not
\* turned down for lacking one: the answer is the document (or, for POST, the
\* id of the stored file), an invalid-format error or a database/storage
\* fault, and every document rendered for it carries the placeholder texts
\* in place of the clean and raw transcript.
C9_NoTranscriptExportHasPlaceholders ==
  \A r \in RecIds :
    NoTranscript(r) =>
      /\ (resp.op \in ExportOps /\ resp.rid = r) =>
           \/ resp.code = 200
                /\ (resp.op = "GET /api/export" => HasPlaceholders(resp.bytes))
           \/ resp.code = 400 /\ resp.error = "Invalid format"
           \/ resp.code = 500 /\ resp.error = "Failed to create export"
      /\ \A f \in files : f.rid = r => HasPlaceholders(f.buffer)

\* an export file is stored for a completed recording that has no transcript
C9_Witness ==
  \E f \in files : NoTranscript(f.rid) /\ resp.op = "POST /api/export"
                     /\ resp.code = 200

\* C10: resolving the id of a stored export at a time t <= birthtime + 15 min
\* returns its bytes with expiry birthtime + 15 min, and at a time
\* t > birthtime + 15 min returns the expired answer with no bytes (an I/O
\* fault of the lookup is answered 500 instead).
C10_ExpiryByTtl ==
  (resp.op = "GET /api/export/:id" /\ resp.code # 500) =>
    \A f \in files :
      f.eid = resp.id =>
        IF now <= f.birthtime + 15
          THEN resp.code = 200 /\ resp.bytes = f.buffer
                 /\ resp.expiresAt = f.birthtime + 15
          ELSE resp.code = 410 /\ resp.bytes = NoBytes

\* a stored export is answered as expired 16 minutes after its creation
C10_Witness ==
  /\ resp.op = "GET /api/export/:id"
  /\ resp.code = 410
  /\ \E f \in files : f.eid = resp.id /\ now = f.birthtime + 16

\* the answer GET /api/export/:id gives for id q at time t over the files fs
\* when no I/O fault occurs
ResolveCode(fs, q, t) ==
  IF Matching(fs, q) = {} THEN 404
  ELSE IF \E f \in Matching(fs, q) : IsExpired(f, t) THEN 410
  ELSE 200

\* the step is a DELETE /api/export/:id of id q that reported success
ExplicitlyDeleted(q) ==
  resp'.op = "DELETE /api/export/:id" /\ resp'.id = q /\ resp'.code = 200

\* C11: an export id that resolves to the expired answer keeps resolving to
\* the expired answer, and never to not-found, after every later step (clock
\* ticks and sweeps included) other than an explicit delete of that export.
C11_ExpiredNeverNotFound ==
  [][\A q \in Queries :
       (ResolveCode(files, q, now) = 410 /\ ~ExplicitlyDeleted(q))
         => ResolveCode(files', q, now') = 410]_vars

\* C12: when DELETE /api/audio/:id has answered with success, no export file
\* of that recording is stored (so none of its export ids resolves to bytes).
C12_RecordingDeleteRemovesExports ==
  (resp.op = "DELETE /api/audio/:id" /\ resp.code = 200)
    => \A f \in files : f.rid # resp.id

C15_SweepsFinishWithoutError ==
  resp.op = "POST /api/export/cleanup" => resp.code = 200

\* C16: DELETE /api/export/:id for the id of a stored export file removes the
\* file and reports success (or 500 on an I/O fault), after which the id
\* resolves to not-found; a delete that reports not-found removes nothing.
C16_ExplicitDeleteRemoves ==
  [][\A q \in Queries :
       (resp'.op = "DELETE /api/export/:id" /\ resp'.id = q) =>
         /\ (Matching(files, q) # {} /\ resp'.code # 500)
              => (resp'.code = 200 /\ ResolveCode(files', q, now') = 404)
         /\ resp'.code = 404 => files' = files]_vars

\* the text after a label on the metadata line of a document that starts
\* with the label
TextAfter(content, label) ==
  content[CHOOSE i \in 1..Len(content) : content[i].s = label].v

\* the confidence read back from "- **Confidence**: 55.5%": the tenths of a
\* percent, as ten-thousandths
ConfidenceAfter(content, label) ==
  content[CHOOSE i \in 1..Len(content) : content[i].s = label].p * 10

ParseMarkdown(content) ==
  [recordingId |-> TextAfter(content, "- **Recording ID**: "),
   mode |-> TextAfter(content, "- **Mode**: "),
   confidence |-> ConfidenceAfter(content, "- **Confidence**: ")]

\* C18: the recording id, mode and confidence parsed out of the Markdown
\* export of a completed recording are the id, mode and confidence stored on
\* the recording.
C18_MarkdownRoundTrip ==
  (resp.op = "GET /api/export" /\ resp.code = 200 /\ resp.bytes.mimeType = "md")
    => ParseMarkdown(resp.bytes.content) =
         [recordingId |-> resp.rid, mode |-> db[resp.rid].mode,
          confidence |-> db[resp.rid].confidence]

====
